---------------------------- MODULE Spec2Model ----------------------------
(***************************************************************************)
(* Model of SkipList<int, int> (src/SkipList.h): the node heap, the        *)
(* container's fields and the public operations Insert, Delete, Search     *)
(* and Clear, each translated from its code.                               *)
(*                                                                         *)
(* Nodes live at addresses.  Address 0 is nullptr, 1 is the header and 2   *)
(* the terminal node; the other addresses are what `new NodeType` can      *)
(* return.  A key is passed to IsLessThan by reference, so a key operand   *)
(* is modelled by the address of the object that holds it: a node address  *)
(* for Node->GetKey(), KeyArg for the caller's key object.                 *)
(*                                                                         *)
(* Reading through nullptr or through a deleted node is undefined          *)
(* behaviour.  The model stops the process there (status = "fault");       *)
(* NoStaleRead below shows that within the bounds every such read is a     *)
(* read through nullptr.  Comparing or copying a pointer to a deleted node *)
(* without reading through it, as IsLessThan does with m_End, is modelled  *)
(* as the build executes it, and `new` may hand a deleted node's address   *)
(* out again.  A failed assert stops the process with status = "abort".    *)
(*                                                                         *)
(* std::size_t is 64 bits wide and TLC's integers are not: m_Size keeps    *)
(* the low 16 bits, which is where it wraps.                               *)
(***************************************************************************)
EXTENDS Integers, FiniteSets, Sequences, TLC

\* ------------------------------------------------------------------ bounds
\* Keys are the ints from KeysBelowDefault below int() to KeysAboveDefault
\* above it, values the ints from int() to MaxValue above it.  MaximumLevels
\* is the template parameter (16 by default).  MaxCallsAfterEndDeleted is how
\* many calls the model follows once Delete has deleted the terminal node.
KeysBelowDefault == 2
KeysAboveDefault == 1
MaxValue == 1
MaximumLevels == 2
MaxCallsAfterEndDeleted == 3

\* --------------------------------------------------------- program constants
DefaultKey == 0
DefaultValue == 0
Null == 0
m_Header == 1
m_End == 2
KeyArg == -1
SizeModulus == 65536

Keys == (DefaultKey - KeysBelowDefault)..(DefaultKey + KeysAboveDefault)
Values == DefaultValue..(DefaultValue + MaxValue)
Levels == 0..(MaximumLevels - 1)
RealAddresses == (m_End + 1)..(m_End + Cardinality(Keys))
Addresses == {m_Header, m_End} \cup RealAddresses
Pointers == Addresses \cup {Null}

VARIABLES
    allocated,          \* the live nodes: new (180, 183, 424), delete (250, 328)
    m_KeyValue,         \* NodeType::m_KeyValue of the node at each address
    m_ForwardPointers,  \* NodeType::m_ForwardPointers of the node at each address
    m_HighestLevel,     \* SkipList::m_HighestLevel
    m_Size,             \* SkipList::m_Size
    status,             \* "running", or how the process stopped
    call,               \* the last call of a public method and its arguments
    returned,           \* what it returned: Delete's count, Search's cursor
    history,            \* the Insert calls made, while no two had the same key,
                        \* and the Delete calls that take them out again
    endDeleted,         \* 0, or the calls made since the one that deleted m_End
    LessThanComparisonType, \* the template argument the comparison object has
    threads             \* per thread: where it is in its call, and its locals

container == <<allocated, m_KeyValue, m_ForwardPointers, m_HighestLevel, m_Size>>
vars == <<allocated, m_KeyValue, m_ForwardPointers, m_HighestLevel, m_Size,
          status, call, returned, history, endDeleted, LessThanComparisonType,
          threads>>

\* ------------------------------------------------------------------- nodes
\* NodeType(): default key and value, every forward pointer nullptr.
NodeType == [first |-> DefaultKey, second |-> DefaultValue]

ForwardPointersType == [L \in Levels |-> Null]

\* SetForwardPointers: fill every level with the given node.
SetForwardPointers(Node) == [L \in Levels |-> Node]

\* A read through Node is defined only for a live node.
Readable(Node) == Node \in allocated

GetKey(Node) == m_KeyValue[Node].first

GetValue(Node) == m_KeyValue[Node].second

GetForwardPointer(Node, Level) == m_ForwardPointers[Node][Level]

\* ------------------------------------------------------------- comparisons
\* The user's comparison object: std::less<int> by default, or a comparison
\* the caller supplies.  AbsoluteLess orders ints by magnitude, a strict weak
\* ordering in which k and -k are equivalent and different.
Abs(a) == IF a < 0 THEN 0 - a ELSE a

m_LessThanComparison(a, b) ==
    IF LessThanComparisonType = "std::less" THEN a < b
    ELSE Abs(a) < Abs(b)

\* The key held by the object a key reference refers to.
Deref(Ref, Key) == IF Ref = KeyArg THEN Key ELSE GetKey(Ref)

\* IsLessThan reaches the user's comparison only when neither operand is the
\* key object of a sentinel and the operands are different objects.
UsesComparison(Left, Right) ==
    /\ Left # Right
    /\ Right # m_End
    /\ Left # m_End
    /\ Right # m_Header
    /\ Left # m_Header

\* The user's comparison reads both operands.
IsLessThanFaults(Left, Right) ==
    /\ UsesComparison(Left, Right)
    /\ \/ Left # KeyArg /\ ~Readable(Left)
       \/ Right # KeyArg /\ ~Readable(Right)

\* IsLessThan without the identity checks: the stored keys are compared.
IsLessThanByValue(Left, Right, Key) ==
    m_LessThanComparison(Deref(Left, Key), Deref(Right, Key))

IsLessThan(Left, Right, Key) ==
    IF Left = Right THEN FALSE
    ELSE IF Right = m_End THEN TRUE
    ELSE IF Left = m_End THEN FALSE
    ELSE IF Right = m_Header THEN FALSE
    ELSE IF Left = m_Header THEN TRUE
    ELSE m_LessThanComparison(Deref(Left, Key), Deref(Right, Key))

IsLessThanOrEqual(Left, Right, Key) ==
    IF IsLessThan(Left, Right, Key) THEN TRUE
    ELSE IF ~IsLessThan(Left, Right, Key) /\ ~IsLessThan(Right, Left, Key) THEN TRUE
    ELSE FALSE

\* ---------------------------------------------------------- level selector
\* The coin is flipped while it shows heads and the level is below the cap;
\* the set of levels the loop can return when it is at CurrentLevel.
RECURSIVE GetRandomLevel(_)
GetRandomLevel(CurrentLevel) ==
    {CurrentLevel} \cup
        (IF CurrentLevel < MaximumLevels - 1
         THEN GetRandomLevel(CurrentLevel + 1)
         ELSE {})

\* --------------------------------------------------------------- traversal
\* The inner while loop: move right on Level while the next key is less than
\* Key.  Returns the node it stops at and how the loop ended.  Steps bounds
\* the walk: a walk longer than the number of addresses is in a cycle and
\* never returns.
RECURSIVE MoveRight(_, _, _, _)
MoveRight(CurrentNode, Level, Key, Steps) ==
    LET Next == GetForwardPointer(CurrentNode, Level)
    IN  IF IsLessThanFaults(Next, KeyArg) \/ Steps = 0
        THEN [end |-> "fault", node |-> CurrentNode]
        ELSE IF IsLessThan(Next, KeyArg, Key)
        THEN MoveRight(Next, Level, Key, Steps - 1)
        ELSE [end |-> "ok", node |-> CurrentNode]

\* The two asserts of Insert and Search at the node the level stops at.
AssertsHold(CurrentNode, Level, Key) ==
    /\ IsLessThan(CurrentNode, KeyArg, Key)
    /\ IsLessThanOrEqual(KeyArg, GetForwardPointer(CurrentNode, Level), Key)

\* The asserts read the key of the next node unless it is a sentinel.
AssertsFault(CurrentNode, Level) ==
    LET Next == GetForwardPointer(CurrentNode, Level)
    IN  IsLessThanFaults(KeyArg, Next) \/ IsLessThanFaults(Next, KeyArg)

\* The for loop from CurrentLevel down to 0, recording the stopping node of
\* each level in UpdatedPointers.  Asserting is TRUE for Insert and Search.
RECURSIVE Descend(_, _, _, _, _)
Descend(CurrentNode, CurrentLevel, Key, UpdatedPointers, Asserting) ==
    IF CurrentLevel < 0
    THEN [end |-> "ok", node |-> CurrentNode, UpdatedPointers |-> UpdatedPointers]
    ELSE LET m == MoveRight(CurrentNode, CurrentLevel, Key, Cardinality(Addresses))
         IN  IF m.end # "ok"
             THEN [end |-> m.end, node |-> m.node, UpdatedPointers |-> UpdatedPointers]
             ELSE IF Asserting /\ AssertsFault(m.node, CurrentLevel)
             THEN [end |-> "fault", node |-> m.node, UpdatedPointers |-> UpdatedPointers]
             ELSE IF Asserting /\ ~AssertsHold(m.node, CurrentLevel, Key)
             THEN [end |-> "abort", node |-> m.node, UpdatedPointers |-> UpdatedPointers]
             ELSE Descend(m.node, CurrentLevel - 1, Key,
                          [UpdatedPointers EXCEPT ![CurrentLevel] = m.node],
                          Asserting)

\* The traversal as Insert, Search and Delete start it.
Traverse(Key, Asserting) ==
    Descend(m_Header, m_HighestLevel, Key, ForwardPointersType, Asserting)

\* ---------------------------------------------------------------- iteration
begin == GetForwardPointer(m_Header, 0)

end == m_End

\* operator++ from CurrentNode until the cursor equals end(): the nodes the
\* cursor was on, and whether it got to end().
RECURSIVE IterateFrom(_, _, _)
IterateFrom(CurrentNode, Visited, Steps) ==
    IF CurrentNode = end THEN [end |-> "ok", nodes |-> Visited]
    ELSE IF ~Readable(CurrentNode) \/ Steps = 0
    THEN [end |-> "fault", nodes |-> Visited]
    ELSE IterateFrom(GetForwardPointer(CurrentNode, 0),
                     Append(Visited, CurrentNode), Steps - 1)

Iterate == IterateFrom(begin, <<>>, Cardinality(Addresses))

\* The key/value pairs the cursor yields, in order.
Entries ==
    [i \in 1..Len(Iterate.nodes) |->
        <<GetKey(Iterate.nodes[i]), GetValue(Iterate.nodes[i])>>]

\* Key is stored: the cursor comes to a node that holds it.
Stored(Key) == \E i \in 1..Len(Entries) : Entries[i][1] = Key

\* Entries without the entry of Key.
Without(entries, Key) == SelectSeq(entries, LAMBDA e : e[1] # Key)

\* ------------------------------------------------------------------ Search
\* Search decides whether the node after the predecessor holds the key.
SearchFinds(CurrentNode, SearchKey) == GetKey(CurrentNode) = SearchKey

\* What Search(SearchKey) returns: "ok" with the cursor's node, or how the
\* call ended otherwise.
Search(SearchKey) ==
    LET t == Traverse(SearchKey, TRUE)
        CurrentNode == GetForwardPointer(t.node, 0)
    IN  IF t.end # "ok" THEN [end |-> t.end, node |-> Null]
        ELSE IF ~Readable(CurrentNode) THEN [end |-> "fault", node |-> Null]
        ELSE IF SearchFinds(CurrentNode, SearchKey)
        THEN [end |-> "ok", node |-> CurrentNode]
        ELSE [end |-> "ok", node |-> m_End]

\* -------------------------------------------------------------------- heap
\* What `delete` leaves at the addresses in Nodes: nothing that is read.
Released(f, Nodes, blank) ==
    [n \in Addresses |-> IF n \in Nodes THEN blank ELSE f[n]]

\* ------------------------------------------------------------- allocation
\* Addresses some live node's forward pointer still holds.
Referenced(Node) ==
    \E n \in allocated : \E L \in Levels : GetForwardPointer(n, L) = Node

FreeAddresses == (RealAddresses \cup {m_End}) \ allocated

\* The addresses `new NodeType` can return for a node that will hold Key.
\* Free addresses nothing refers to are interchangeable, so one of them
\* stands for all (the one at the key's offset when it is free, which keeps
\* the heap independent of the order of the calls); a free address that is
\* still referred to (m_End always is, by the container) is a different
\* outcome each.
NewAddresses(Key) ==
    LET Stale == {a \in FreeAddresses : a = m_End \/ Referenced(a)}
        Fresh == FreeAddresses \ Stale
        Home == m_End + 1 + (Key - (DefaultKey - KeysBelowDefault))
    IN  Stale \cup (IF Home \in Fresh THEN {Home}
                    ELSE {a \in Fresh : \A b \in Fresh : a <= b})

\* ----------------------------------------------------------------- history
\* The keys inserted so far, while the run consists of Insert calls with
\* pairwise distinct keys only (pure), and of the keys still to delete (left)
\* while it goes on with Delete calls of the inserted keys, each once (trip).
Record(h, op, Key) ==
    IF op = "Insert" /\ h.pure /\ Key \notin h.keys
    THEN [pure |-> TRUE, keys |-> h.keys \cup {Key},
          trip |-> TRUE, left |-> h.keys \cup {Key}]
    ELSE IF op = "Delete" /\ h.trip /\ Key \in h.left
    THEN [pure |-> FALSE, keys |-> h.keys,
          trip |-> TRUE, left |-> h.left \ {Key}]
    ELSE [pure |-> FALSE, keys |-> {}, trip |-> FALSE, left |-> {}]

Call(op, Key, Value) ==
    [op |-> op, Key |-> Key, Value |-> Value]

\* endDeleted is 0 until the terminal node is deleted and then counts the
\* calls made since, that one included.
Counts ==
    endDeleted' = IF endDeleted > 0 THEN endDeleted + 1
                  ELSE IF m_End \notin allocated' THEN 1
                  ELSE 0

\* A call is made while the process runs; the model follows the program for
\* MaxCallsAfterEndDeleted calls after the one that deleted the terminal node.
Callable == status = "running" /\ endDeleted <= MaxCallsAfterEndDeleted

\* The call does not return: the process has stopped.
Stops(how, c) ==
    /\ status' = how
    /\ call' = c
    /\ returned' = 0
    /\ history' = Record(history, c.op, c.Key)
    /\ UNCHANGED container

\* ----------------------------------------------------------------- threads
\* The two threads of the interleaved specification; each makes one call.
Threads == {"first", "second"}

\* A thread that has not made its call: its locals CurrentNode (node),
\* UpdatedPointers (up), CurrentLevel (level) and the pointer it last loaded
\* (read) hold nothing; raced is set once a store of its splice loop was made
\* over a level-0 pointer that had changed since the thread loaded it.
Idle ==
    [pc |-> "idle", op |-> "none", Key |-> DefaultKey, Value |-> DefaultValue,
     node |-> Null, up |-> ForwardPointersType, level |-> 0, read |-> Null,
     raced |-> FALSE]

\* -------------------------------------------------------------------- Init
Init ==
    /\ allocated = {m_Header, m_End}
    /\ m_KeyValue = [n \in Addresses |-> NodeType]
    /\ m_ForwardPointers =
         [n \in Addresses |->
            IF n = m_Header THEN SetForwardPointers(m_End) ELSE ForwardPointersType]
    /\ m_HighestLevel = 0
    /\ m_Size = 0
    /\ status = "running"
    /\ call = Call("construct", DefaultKey, DefaultValue)
    /\ returned = 0
    /\ history = [pure |-> TRUE, keys |-> {}, trip |-> TRUE, left |-> {}]
    /\ endDeleted = 0
    /\ LessThanComparisonType = "std::less"
    /\ threads = [t \in Threads |-> Idle]

\* The container constructed with the caller's comparison.
InitAbsoluteLess ==
    /\ allocated = {m_Header, m_End}
    /\ m_KeyValue = [n \in Addresses |-> NodeType]
    /\ m_ForwardPointers =
         [n \in Addresses |->
            IF n = m_Header THEN SetForwardPointers(m_End) ELSE ForwardPointersType]
    /\ m_HighestLevel = 0
    /\ m_Size = 0
    /\ status = "running"
    /\ call = Call("construct", DefaultKey, DefaultValue)
    /\ returned = 0
    /\ history = [pure |-> TRUE, keys |-> {}, trip |-> TRUE, left |-> {}]
    /\ endDeleted = 0
    /\ LessThanComparisonType = "AbsoluteLess"
    /\ threads = [t \in Threads |-> Idle]

\* ------------------------------------------------------------------ Insert
\* The splice loop of Insert, levels CurrentLevel..HighestLevel.
RECURSIVE InsertSplice(_, _, _, _, _)
InsertSplice(fp, CurrentLevel, CurrentNode, UpdatedPointers, HighestLevel) ==
    IF CurrentLevel > HighestLevel THEN fp
    ELSE LET Left == UpdatedPointers[CurrentLevel]
             fp1 == [fp EXCEPT ![CurrentNode][CurrentLevel] = fp[Left][CurrentLevel]]
             fp2 == [fp1 EXCEPT ![Left][CurrentLevel] = CurrentNode]
         IN  InsertSplice(fp2, CurrentLevel + 1, CurrentNode, UpdatedPointers,
                          HighestLevel)

\* The predecessor vector after the levels above the old highest level are
\* given the header.
RaiseUpdatedPointers(UpdatedPointers, NewRandomLevel) ==
    [L \in Levels |->
        IF m_HighestLevel + 1 <= L /\ L <= NewRandomLevel
        THEN m_Header
        ELSE UpdatedPointers[L]]

\* The else branch with the highest level set to the drawn level whether or
\* not it is higher.
InsertNewAtDrawnLevel(Key, Value, NewRandomLevel, CurrentNode, UpdatedPointers) ==
    LET up == RaiseUpdatedPointers(UpdatedPointers, NewRandomLevel)
        fp0 == [m_ForwardPointers EXCEPT ![CurrentNode] = ForwardPointersType]
        fp == InsertSplice(fp0, 0, CurrentNode, up, NewRandomLevel)
        kv == [m_KeyValue EXCEPT ![CurrentNode] = [first |-> Key, second |-> Value]]
    IN  /\ m_HighestLevel' = NewRandomLevel
        /\ allocated' = allocated \cup {CurrentNode}
        /\ m_KeyValue' = kv
        /\ m_ForwardPointers' = fp
        /\ m_Size' = (m_Size + 1) % SizeModulus

\* The else branch of Insert: a new node at CurrentNode with the drawn level.
InsertNew(Key, Value, NewRandomLevel, CurrentNode, UpdatedPointers) ==
    LET Raised == NewRandomLevel > m_HighestLevel
        up == IF Raised
              THEN RaiseUpdatedPointers(UpdatedPointers, NewRandomLevel)
              ELSE UpdatedPointers
        hl == IF Raised THEN NewRandomLevel ELSE m_HighestLevel
        fp0 == [m_ForwardPointers EXCEPT ![CurrentNode] = ForwardPointersType]
        fp == InsertSplice(fp0, 0, CurrentNode, up, hl)
        kv == [m_KeyValue EXCEPT ![CurrentNode] = [first |-> Key, second |-> Value]]
    IN  /\ m_HighestLevel' = hl
        /\ allocated' = allocated \cup {CurrentNode}
        /\ m_KeyValue' = kv
        /\ m_ForwardPointers' = fp
        /\ m_Size' = (m_Size + 1) % SizeModulus

\* Insert decides whether the node after the predecessor holds the key.
InsertFinds(CurrentNode, Key) == GetKey(CurrentNode) = Key

\* Insert(Key, Value).  The model has as many addresses as keys; when none
\* is free no new node is made.
Insert(Key, Value) ==
    LET t == Traverse(Key, TRUE)
        CurrentNode == GetForwardPointer(t.node, 0)
    IN  /\ Callable
        /\ UNCHANGED <<LessThanComparisonType, threads>>
        /\ IF t.end # "ok"
           THEN Stops(t.end, Call("Insert", Key, Value))
           ELSE IF ~Readable(CurrentNode)
           THEN Stops("fault", Call("Insert", Key, Value))
           ELSE IF InsertFinds(CurrentNode, Key)
           THEN /\ m_KeyValue' = [m_KeyValue EXCEPT ![CurrentNode].second = Value]
                /\ UNCHANGED <<allocated, m_ForwardPointers, m_HighestLevel, m_Size>>
                /\ call' = Call("Insert", Key, Value)
                /\ returned' = 0
                /\ history' = Record(history, "Insert", Key)
                /\ UNCHANGED status
           ELSE /\ NewAddresses(Key) # {}
                /\ \E NewRandomLevel \in GetRandomLevel(0) :
                   \E NewNode \in NewAddresses(Key) :
                      InsertNew(Key, Value, NewRandomLevel, NewNode,
                                t.UpdatedPointers)
                /\ call' = Call("Insert", Key, Value)
                /\ returned' = 0
                /\ history' = Record(history, "Insert", Key)
                /\ UNCHANGED status
        /\ Counts

\* ------------------------------------------------------------------ Delete
\* The splice loop of Delete, from CurrentLevel up, until the first level
\* whose predecessor does not point at CurrentNode.
RECURSIVE DeleteSplice(_, _, _, _)
DeleteSplice(fp, CurrentLevel, CurrentNode, UpdatedPointers) ==
    IF CurrentLevel > m_HighestLevel THEN fp
    ELSE LET Left == UpdatedPointers[CurrentLevel]
         IN  IF fp[Left][CurrentLevel] # CurrentNode THEN fp
             ELSE DeleteSplice(
                    [fp EXCEPT ![Left][CurrentLevel] = fp[CurrentNode][CurrentLevel]],
                    CurrentLevel + 1, CurrentNode, UpdatedPointers)

\* The loop that lowers m_HighestLevel after a node is deleted.
RECURSIVE LowerHighestLevel(_, _)
LowerHighestLevel(fp, HighestLevel) ==
    IF HighestLevel > 0 /\ fp[m_Header][HighestLevel] = Null
    THEN LowerHighestLevel(fp, HighestLevel - 1)
    ELSE HighestLevel

\* The same test on the other member of the pair.
DeleteFindsValue(CurrentNode, Key) == ~(GetValue(CurrentNode) # Key)

\* Delete decides whether the node after the predecessor holds the key.
DeleteFinds(CurrentNode, Key) == ~(GetKey(CurrentNode) # Key)

Delete(Key) ==
    LET t == Traverse(Key, FALSE)
        CurrentNode == GetForwardPointer(t.node, 0)
        c == Call("Delete", Key, DefaultValue)
    IN  /\ Callable
        /\ UNCHANGED <<LessThanComparisonType, threads>>
        /\ IF t.end # "ok"
           THEN Stops(t.end, c)
           ELSE IF ~Readable(CurrentNode)
           THEN Stops("fault", c)
           ELSE IF ~DeleteFinds(CurrentNode, Key)
           THEN /\ returned' = 0
                /\ call' = c
                /\ history' = Record(history, "Delete", Key)
                /\ UNCHANGED <<container, status>>
           ELSE LET fp == DeleteSplice(m_ForwardPointers, 0, CurrentNode,
                                       t.UpdatedPointers)
                    gone == {CurrentNode}
                IN  /\ m_ForwardPointers' = Released(fp, gone, ForwardPointersType)
                    /\ m_KeyValue' = Released(m_KeyValue, gone, NodeType)
                    /\ allocated' = allocated \ gone
                    /\ m_HighestLevel' = LowerHighestLevel(fp, m_HighestLevel)
                    /\ m_Size' = (m_Size - 1) % SizeModulus
                    /\ returned' = 1
                    /\ call' = c
                    /\ history' = Record(history, "Delete", Key)
                    /\ UNCHANGED status
        /\ Counts

\* ------------------------------------------------------------------- Clear
\* The level-0 walk of Clear: the nodes it deletes before it reaches m_End.
RECURSIVE ClearWalk(_, _, _)
ClearWalk(CurrentNode, Deleted, Steps) ==
    IF CurrentNode = m_End THEN [end |-> "ok", Deleted |-> Deleted]
    ELSE IF ~Readable(CurrentNode) \/ CurrentNode \in Deleted \/ Steps = 0
    THEN [end |-> "fault", Deleted |-> Deleted]
    ELSE ClearWalk(GetForwardPointer(CurrentNode, 0),
                   Deleted \cup {CurrentNode}, Steps - 1)

Clear ==
    LET w == ClearWalk(GetForwardPointer(m_Header, 0), {}, Cardinality(Addresses))
        c == Call("Clear", DefaultKey, DefaultValue)
    IN  /\ Callable
        /\ UNCHANGED <<LessThanComparisonType, threads>>
        /\ IF w.end # "ok"
           THEN Stops(w.end, c)
           ELSE LET fp == [m_ForwardPointers EXCEPT
                              ![m_Header] = SetForwardPointers(m_End)]
                IN
                /\ allocated' = allocated \ w.Deleted
                /\ m_KeyValue' = Released(m_KeyValue, w.Deleted, NodeType)
                /\ m_ForwardPointers' =
                      Released(fp, w.Deleted, ForwardPointersType)
                /\ m_HighestLevel' = 0
                /\ m_Size' = 0
                /\ returned' = 0
                /\ call' = c
                /\ history' = Record(history, "Clear", DefaultKey)
                /\ UNCHANGED status
        /\ Counts

\* ------------------------------------------------------------ Search, Size
\* A lookup that resets the value of the node it finds.
DoSearchResetting(SearchKey) ==
    LET r == Search(SearchKey)
        c == Call("Search", SearchKey, DefaultValue)
    IN  /\ Callable
        /\ UNCHANGED <<LessThanComparisonType, threads>>
        /\ IF r.end # "ok"
           THEN Stops(r.end, c)
           ELSE /\ returned' = r.node
                /\ call' = c
                /\ history' = Record(history, "Search", SearchKey)
                /\ m_KeyValue' = [m_KeyValue EXCEPT ![r.node].second = DefaultValue]
                /\ UNCHANGED <<allocated, m_ForwardPointers, m_HighestLevel,
                               m_Size, status>>
        /\ Counts

\* A call of Search: the container is left alone, the cursor is returned.
DoSearch(SearchKey) ==
    LET r == Search(SearchKey)
        c == Call("Search", SearchKey, DefaultValue)
    IN  /\ Callable
        /\ UNCHANGED <<LessThanComparisonType, threads>>
        /\ IF r.end # "ok"
           THEN Stops(r.end, c)
           ELSE /\ returned' = r.node
                /\ call' = c
                /\ history' = Record(history, "Search", SearchKey)
                /\ UNCHANGED <<container, status>>
        /\ Counts

GetSize == m_Size

\* ----------------------------------------------------------- specification
Next ==
    \/ \E Key \in Keys : \E Value \in Values : Insert(Key, Value)
    \/ \E Key \in Keys : Delete(Key)
    \/ \E Key \in Keys : DoSearch(Key)
    \/ Clear

Spec == Init /\ [][Next]_vars

\* The keys that have an equivalent, different key under AbsoluteLess.
EquivalentKeys == {k \in Keys : \E j \in Keys : j # k /\ Abs(j) = Abs(k)}

\* The same program with the comparison by magnitude, called with keys that
\* are equivalent to another key.
NextAbsoluteLess ==
    \/ \E Key \in EquivalentKeys : \E Value \in Values : Insert(Key, Value)
    \/ \E Key \in EquivalentKeys : Delete(Key)
    \/ \E Key \in EquivalentKeys : DoSearch(Key)
    \/ Clear

SpecAbsoluteLess == InitAbsoluteLess /\ [][NextAbsoluteLess]_vars

\* ------------------------------------------------- calls without a lock
\* One thread fills the container with Insert calls and then starts two
\* threads, each of which makes one call of Insert or Delete on the container
\* with no lock.  A call is a sequence of steps and the steps of the two
\* threads interleave:
\* the traversal up to the allocation of the new node (Insert) or to the
\* decision that the key is found (Delete); then for each level of the splice
\* loop the load of a forward pointer and the store into the predecessor;
\* then, for Delete, the deallocation; then the update of m_Size.  Every
\* schedule of these steps is a schedule of the program's loads and stores.
\* A load or store through a deallocated node or nullptr, and a second
\* delete of the same node, stop the process.
InterleavedKeys == Keys \ {DefaultKey}

\* The thread's record with some fields replaced.
Becomes(t, rec) == threads' = [threads EXCEPT ![t] = rec]

\* The thread's call does not return: the process has stopped.
ThreadStops(how) ==
    /\ status' = how
    /\ UNCHANGED <<container, call, returned, history, threads>>

\* Insert up to and including `new NodeType` (349-427).
EnterInsert(t, Key, Value) ==
    LET tr == Traverse(Key, TRUE)
        CurrentNode == GetForwardPointer(tr.node, 0)
        c == Call("Insert", Key, Value)
        me == threads[t]
    IN  /\ Callable
        /\ me.pc = "idle"
        /\ UNCHANGED <<LessThanComparisonType, endDeleted>>
        /\ IF tr.end # "ok"
           THEN Stops(tr.end, c) /\ UNCHANGED threads
           ELSE IF ~Readable(CurrentNode)
           THEN Stops("fault", c) /\ UNCHANGED threads
           ELSE IF InsertFinds(CurrentNode, Key)
           THEN /\ m_KeyValue' = [m_KeyValue EXCEPT ![CurrentNode].second = Value]
                /\ UNCHANGED <<allocated, m_ForwardPointers, m_HighestLevel, m_Size>>
                /\ Becomes(t, [me EXCEPT !.pc = "done", !.op = "Insert",
                                          !.Key = Key, !.Value = Value])
                /\ call' = c
                /\ returned' = 0
                /\ history' = Record(history, "Insert", Key)
                /\ UNCHANGED status
           ELSE /\ NewAddresses(Key) # {}
                /\ \E NewRandomLevel \in GetRandomLevel(0) :
                   \E NewNode \in NewAddresses(Key) :
                      LET Raised == NewRandomLevel > m_HighestLevel
                      IN  /\ m_HighestLevel' =
                                IF Raised THEN NewRandomLevel ELSE m_HighestLevel
                          /\ allocated' = allocated \cup {NewNode}
                          /\ m_KeyValue' =
                                [m_KeyValue EXCEPT
                                    ![NewNode] = [first |-> Key, second |-> Value]]
                          /\ m_ForwardPointers' =
                                [m_ForwardPointers EXCEPT
                                    ![NewNode] = ForwardPointersType]
                          /\ UNCHANGED m_Size
                          /\ Becomes(t, [me EXCEPT
                                !.pc = "read", !.op = "Insert",
                                !.Key = Key, !.Value = Value,
                                !.node = NewNode,
                                !.up = IF Raised
                                       THEN RaiseUpdatedPointers(
                                                tr.UpdatedPointers, NewRandomLevel)
                                       ELSE tr.UpdatedPointers,
                                !.level = 0, !.read = Null])
                /\ call' = c
                /\ returned' = 0
                /\ history' = Record(history, "Insert", Key)
                /\ UNCHANGED status

\* Delete up to the decision that the key is found (269-306).
EnterDelete(t, Key) ==
    LET tr == Traverse(Key, FALSE)
        CurrentNode == GetForwardPointer(tr.node, 0)
        c == Call("Delete", Key, DefaultValue)
        me == threads[t]
    IN  /\ Callable
        /\ me.pc = "idle"
        /\ UNCHANGED <<LessThanComparisonType, endDeleted>>
        /\ IF tr.end # "ok"
           THEN Stops(tr.end, c) /\ UNCHANGED threads
           ELSE IF ~Readable(CurrentNode)
           THEN Stops("fault", c) /\ UNCHANGED threads
           ELSE /\ IF ~DeleteFinds(CurrentNode, Key)
                   THEN Becomes(t, [me EXCEPT !.pc = "done", !.op = "Delete",
                                             !.Key = Key])
                   ELSE Becomes(t, [me EXCEPT
                            !.pc = "read", !.op = "Delete",
                            !.Key = Key, !.Value = DefaultValue,
                            !.node = CurrentNode,
                            !.up = tr.UpdatedPointers,
                            !.level = 0, !.read = Null])
                /\ returned' = 0
                /\ call' = c
                /\ history' = Record(history, "Delete", Key)
                /\ UNCHANGED <<container, status>>

\* The head of a splice loop's iteration.  Insert (430-436): test the level
\* against m_HighestLevel, load the predecessor's pointer and store it in the
\* new node.  Delete (313-324): test the level, leave the loop unless the
\* predecessor points at the node, load the node's pointer.
SpliceRead(t) ==
    LET me == threads[t]
        Left == me.up[me.level]
    IN  /\ status = "running"
        /\ me.pc = "read"
        /\ UNCHANGED <<LessThanComparisonType, endDeleted>>
        /\ IF me.level > m_HighestLevel
           THEN /\ Becomes(t, [me EXCEPT
                       !.pc = IF me.op = "Insert" THEN "size" ELSE "free"])
                /\ UNCHANGED <<container, status, call, returned, history>>
           ELSE IF ~Readable(Left)
           THEN ThreadStops("fault")
           ELSE IF me.op = "Insert"
           THEN IF ~Readable(me.node)
                THEN ThreadStops("fault")
                ELSE /\ m_ForwardPointers' =
                           [m_ForwardPointers EXCEPT
                               ![me.node][me.level] =
                                   GetForwardPointer(Left, me.level)]
                     /\ Becomes(t, [me EXCEPT
                            !.pc = "write",
                            !.read = GetForwardPointer(Left, me.level)])
                     /\ UNCHANGED <<allocated, m_KeyValue, m_HighestLevel, m_Size,
                                    status, call, returned, history>>
           ELSE IF GetForwardPointer(Left, me.level) # me.node
           THEN /\ Becomes(t, [me EXCEPT !.pc = "free"])
                /\ UNCHANGED <<container, status, call, returned, history>>
           ELSE IF ~Readable(me.node)
           THEN ThreadStops("fault")
           ELSE /\ Becomes(t, [me EXCEPT
                       !.pc = "write",
                       !.read = GetForwardPointer(me.node, me.level)])
                /\ UNCHANGED <<container, status, call, returned, history>>

\* The store is made on level 0 with a stale load: the predecessor's pointer
\* is no longer what the thread found there, or, for Delete, the node's
\* pointer is no longer what the thread stores.
Races(me) ==
    /\ me.level = 0
    /\ IF me.op = "Insert"
       THEN GetForwardPointer(me.up[me.level], me.level) # me.read
       ELSE \/ GetForwardPointer(me.up[me.level], me.level) # me.node
            \/ GetForwardPointer(me.node, me.level) # me.read

\* What the store of the splice loop puts in the predecessor (440, 322-324).
Stored_(me) == IF me.op = "Insert" THEN me.node ELSE me.read

\* The iteration made under a lock: the predecessor's pointer is loaded
\* again at the time of the store.
SpliceStoreLocked(me, fp) ==
    IF me.op = "Insert"
    THEN [fp EXCEPT ![me.node][me.level] = fp[me.up[me.level]][me.level],
                    ![me.up[me.level]][me.level] = me.node]
    ELSE IF fp[me.up[me.level]][me.level] = me.node
    THEN [fp EXCEPT ![me.up[me.level]][me.level] = fp[me.node][me.level]]
    ELSE fp

\* The store of the splice loop's iteration.  The copy of the predecessor's
\* pointer in the new node is the one loaded before.
SpliceStore(me, fp) ==
    [fp EXCEPT ![me.up[me.level]][me.level] = Stored_(me)]

SpliceWrite(t) ==
    LET me == threads[t]
        Left == me.up[me.level]
    IN  /\ status = "running"
        /\ me.pc = "write"
        /\ UNCHANGED <<LessThanComparisonType, endDeleted>>
        /\ IF ~Readable(Left)
           THEN ThreadStops("fault")
           ELSE /\ m_ForwardPointers' = SpliceStore(me, m_ForwardPointers)
                /\ Becomes(t, [me EXCEPT
                       !.pc = "read",
                       !.level = me.level + 1,
                       !.raced = me.raced \/ Races(me)])
                /\ UNCHANGED <<allocated, m_KeyValue, m_HighestLevel, m_Size,
                               status, call, returned, history>>

\* Delete: `delete CurrentNode` and the loop that lowers m_HighestLevel
\* (328-334).
Free(t) ==
    LET me == threads[t]
    IN  /\ status = "running"
        /\ me.pc = "free"
        /\ UNCHANGED <<LessThanComparisonType, endDeleted>>
        /\ IF ~Readable(me.node)
           THEN ThreadStops("fault")
           ELSE /\ allocated' = allocated \ {me.node}
                /\ m_ForwardPointers' =
                      Released(m_ForwardPointers, {me.node}, ForwardPointersType)
                /\ m_KeyValue' = Released(m_KeyValue, {me.node}, NodeType)
                /\ m_HighestLevel' =
                      LowerHighestLevel(m_ForwardPointers, m_HighestLevel)
                /\ Becomes(t, [me EXCEPT !.pc = "size"])
                /\ UNCHANGED <<m_Size, status, call, returned, history>>

\* ++m_Size (444) or --m_Size (337), and the return.
UpdateSize(t) ==
    LET me == threads[t]
    IN  /\ status = "running"
        /\ me.pc = "size"
        /\ UNCHANGED <<LessThanComparisonType, endDeleted>>
        /\ m_Size' = (IF me.op = "Insert" THEN m_Size + 1 ELSE m_Size - 1)
                        % SizeModulus
        /\ returned' = IF me.op = "Insert" THEN 0 ELSE 1
        /\ Becomes(t, [me EXCEPT !.pc = "done"])
        /\ UNCHANGED <<allocated, m_KeyValue, m_ForwardPointers, m_HighestLevel,
                       status, call, history>>

\* No thread has started: the container is filled by one thread.
Unstarted == \A t \in Threads : threads[t] = Idle

NextInterleaved ==
    \/ Unstarted /\ \E Key \in InterleavedKeys : Insert(Key, DefaultValue)
    \/ \E t \in Threads : \E Key \in InterleavedKeys :
          EnterInsert(t, Key, DefaultValue)
    \/ \E t \in Threads : \E Key \in InterleavedKeys : EnterDelete(t, Key)
    \/ \E t \in Threads : SpliceRead(t)
    \/ \E t \in Threads : SpliceWrite(t)
    \/ \E t \in Threads : Free(t)
    \/ \E t \in Threads : UpdateSize(t)

SpecInterleaved == Init /\ [][NextInterleaved]_vars

\* ------------------------------------------------------------------ lemmas
TypeOK ==
    /\ allocated \subseteq Addresses
    /\ m_KeyValue \in [Addresses -> [first : Keys, second : Values]]
    /\ m_ForwardPointers \in [Addresses -> [Levels -> Pointers]]
    /\ m_HighestLevel \in Levels
    /\ m_Size \in 0..(SizeModulus - 1)
    /\ status \in {"running", "fault", "abort"}
    /\ returned \in Pointers
    /\ endDeleted \in 0..(MaxCallsAfterEndDeleted + 1)
    /\ LessThanComparisonType \in {"std::less", "AbsoluteLess"}

\* No live node points at a deleted node other than the terminal node, so
\* the reads that stop the process are reads through nullptr.
NoStaleRead ==
    \A n \in allocated : \A L \in Levels :
        GetForwardPointer(n, L) \in RealAddresses =>
            GetForwardPointer(n, L) \in allocated

\* The asserts of Insert and Search never fail.
NoAbort == status # "abort"

\* The terminal node has not been deleted.
Intact == endDeleted = 0

\* ================================================================== claims
Found == [end |-> "ok", node |-> end]

\* C1: in every reachable state, walking level 0 from begin() to end()
\* yields strictly ascending keys, no key twice.
C1_IterationAscending ==
    /\ Iterate.end = "ok"
    /\ \A i, j \in 1..Len(Entries) : i < j => Entries[i][1] < Entries[j][1]

\* C2: immediately after Insert(k, v), Search(k) returns a cursor different
\* from end() on a real node whose key is k and whose value is v.
C2_SearchAfterInsert ==
    (call.op = "Insert" /\ status = "running") =>
        LET r == Search(call.Key)
        IN  /\ r.end = "ok"
            /\ r.node # end
            /\ r.node \in RealAddresses
            /\ GetKey(r.node) = call.Key
            /\ GetValue(r.node) = call.Value

\* C3: in every reachable state Search(k) returns a cursor on the node
\* holding k when k is stored, and end() when it is not.
C3_SearchFindsExactlyStored ==
    \A k \in Keys :
        LET r == Search(k)
        IN  /\ r.end = "ok"
            /\ IF Stored(k)
               THEN r.node # end /\ GetKey(r.node) = k
               ELSE r.node = end

\* C4: from an empty container, after N Insert calls with N pairwise
\* distinct keys Size() equals N.
C4_SizeAfterDistinctInserts ==
    (history.pure /\ status = "running") => GetSize = Cardinality(history.keys)

\* C5: Delete(k) of a key that is not stored returns 0 and changes nothing
\* of the container.
C5_DeleteMissingIsNoOp ==
    [][(call'.op = "Delete" /\ ~Stored(call'.Key)) =>
          (status' = "running" /\ returned' = 0 /\ UNCHANGED container)]_vars

\* C6: Delete(k) of a stored key returns 1, decreases Size() by exactly 1,
\* removes exactly the entry of k and leaves the other entries and their
\* order as they were.
C6_DeleteStoredRemovesOne ==
    [][(call'.op = "Delete" /\ Stored(call'.Key)) =>
          /\ status' = "running"
          /\ returned' = 1
          /\ m_Size' = m_Size - 1
          /\ Iterate'.end = "ok"
          /\ Entries' = Without(Entries, call'.Key)]_vars

\* C7: immediately after Delete(k), whatever it returned, Search(k) returns
\* end().
C7_SearchAfterDelete ==
    (call.op = "Delete" /\ status = "running") => Search(call.Key) = Found

\* C8: Insert(k, v2) of a stored key overwrites the value of its node in
\* place: no node is created, Size(), every forward reference, the highest
\* level and the other nodes' keys and values stay as they were.
C8_InsertStoredOverwritesInPlace ==
    [][(call'.op = "Insert" /\ Stored(call'.Key)) =>
          /\ status' = "running"
          /\ UNCHANGED <<allocated, m_ForwardPointers, m_HighestLevel, m_Size>>
          /\ \E n \in RealAddresses \cap allocated :
                /\ GetKey(n) = call'.Key
                /\ m_KeyValue' = [m_KeyValue EXCEPT ![n].second = call'.Value]]_vars

\* C9: in every reachable state Size() is the number of real nodes on the
\* level-0 chain between the header and the terminal node.
C9_SizeCountsNodes ==
    /\ Iterate.end = "ok"
    /\ GetSize = Len(Iterate.nodes)

\* C10: the sentinels are never treated as entries: no Insert overwrites a
\* sentinel's value and no Delete or Clear deallocates a sentinel.
C10_SentinelsUntouched ==
    /\ {m_Header, m_End} \subseteq allocated
    /\ m_KeyValue[m_Header] = NodeType
    /\ m_KeyValue[m_End] = NodeType

\* --------------------------------------------- while the terminal node lives
\* The statements above that fail only in states Delete's removal of the
\* terminal node leads to hold as long as that node has not been deleted.
IntactIterationAscending == Intact => C1_IterationAscending

IntactSearchFindsExactlyStored == Intact => C3_SearchFindsExactlyStored

IntactSearchAfterDelete == Intact => C7_SearchAfterDelete

IntactSizeCountsNodes == Intact => C9_SizeCountsNodes

IntactDeleteStoredRemovesOne ==
    [][(endDeleted' = 0 /\ call'.op = "Delete" /\ Stored(call'.Key)) =>
          /\ status' = "running"
          /\ returned' = 1
          /\ m_Size' = m_Size - 1
          /\ Iterate'.end = "ok"
          /\ Entries' = Without(Entries, call'.Key)]_vars

IntactInsertStoredOverwritesInPlace ==
    [][(endDeleted' = 0 /\ call'.op = "Insert" /\ Stored(call'.Key)) =>
          /\ status' = "running"
          /\ UNCHANGED <<allocated, m_ForwardPointers, m_HighestLevel, m_Size>>
          /\ \E n \in RealAddresses \cap allocated :
                /\ GetKey(n) = call'.Key
                /\ m_KeyValue' = [m_KeyValue EXCEPT ![n].second = call'.Value]]_vars

\* ------------------------------------------------------- claims C11 to C20
\* a and b are the same key under the comparison: neither is less.
Equivalent(a, b) == ~m_LessThanComparison(a, b) /\ ~m_LessThanComparison(b, a)

\* A key equivalent to Key is stored.
StoredEquivalent(Key) ==
    \E i \in 1..Len(Entries) : Equivalent(Entries[i][1], Key)

\* C11: key equality is derived from the less-than relation only: when a key
\* equivalent to k is stored, Insert(k, v) updates and adds no node,
\* Search(k) returns a cursor other than end() and Delete(k) returns 1.
C11_EquivalentKeyIsSameKey ==
    [][StoredEquivalent(call'.Key) =>
          /\ status' = "running"
          /\ call'.op = "Insert" => Len(Entries') = Len(Entries)
          /\ call'.op = "Search" => returned' # end
          /\ call'.op = "Delete" => returned' = 1]_vars

\* The container as the constructor leaves it: the two sentinels only, every
\* header pointer at the terminal node, highest level and size 0.
Fresh ==
    /\ allocated = {m_Header, m_End}
    /\ m_ForwardPointers =
         [n \in Addresses |->
            IF n = m_Header THEN SetForwardPointers(m_End) ELSE ForwardPointersType]
    /\ m_HighestLevel = 0
    /\ m_Size = 0

\* C12: from any reachable state Clear() returns with Size() 0 and
\* begin() == end(), and the container is as a freshly constructed one for
\* the operations that follow.
C12_ClearGivesFreshContainer ==
    call.op = "Clear" =>
        /\ status = "running"
        /\ GetSize = 0
        /\ begin = end
        /\ Fresh

IntactClearGivesFreshContainer == Intact => C12_ClearGivesFreshContainer

\* The key objects IsLessThan is given besides the sentinels' own: the
\* caller's key and the keys held by real nodes.
KeyObjects == {KeyArg} \cup (RealAddresses \cap allocated)

\* C13: the sentinels are compared by identity: for every key k the header's
\* key is less than k and k is not less than it, k is less than the terminal
\* node's key and that key is not less than k, and the user's comparison is
\* not called with a sentinel's stored key.
C13_SentinelsComparedByIdentity ==
    \A x \in KeyObjects : \A k \in Keys :
        /\ IsLessThan(m_Header, x, k)
        /\ ~IsLessThan(x, m_Header, k)
        /\ IsLessThan(x, m_End, k)
        /\ ~IsLessThan(m_End, x, k)
        /\ ~UsesComparison(m_Header, x) /\ ~UsesComparison(x, m_Header)
        /\ ~UsesComparison(m_End, x) /\ ~UsesComparison(x, m_End)

\* C13, witness: Insert has walked from the header past the terminal node's
\* key and linked a node with a key below int() between the two sentinels.
C13_Witness ==
    /\ call.op = "Insert"
    /\ call.Key < DefaultKey
    /\ m_End \in allocated
    /\ \E n \in RealAddresses \cap allocated :
          /\ GetKey(n) = call.Key
          /\ GetForwardPointer(m_Header, 0) = n
          /\ GetForwardPointer(n, 0) = m_End

\* C14: Search(k) changes nothing: size, highest level, every node's key,
\* value and forward pointers and the set of live nodes are after the call
\* what they were before it.
C14_SearchChangesNothing ==
    [][call'.op = "Search" => UNCHANGED container]_vars

\* C14, witness: Search has returned a cursor on a real node that holds a
\* value other than int(), in a container with more than one level in use.
C14_Witness ==
    /\ call.op = "Search"
    /\ status = "running"
    /\ returned \in RealAddresses \cap allocated
    /\ GetKey(returned) = call.Key
    /\ GetValue(returned) # DefaultValue
    /\ m_HighestLevel > 0

\* The reference sorted map: entries in ascending key order, one per key.
Put(entries, Key, Value) ==
    SelectSeq(entries, LAMBDA e : e[1] < Key)
        \o << <<Key, Value>> >>
        \o SelectSeq(entries, LAMBDA e : e[1] > Key)

\* What the call does to the reference map.
Reference(entries, c) ==
    IF c.op = "Insert" THEN Put(entries, c.Key, c.Value)
    ELSE IF c.op = "Delete" THEN Without(entries, c.Key)
    ELSE IF c.op = "Clear" THEN << >>
    ELSE entries

IntactRefinesSortedMap ==
    [][(/\ endDeleted' = 0
        /\ call'.op \in {"Insert", "Delete"} => call'.Key # DefaultKey) =>
         /\ status' = "running"
         /\ Iterate'.end = "ok"
         /\ Entries' = Reference(Entries, call')
         /\ GetSize' = Len(Reference(Entries, call'))
         /\ call'.op = "Delete" =>
               returned' = Len(Entries) - Len(Reference(Entries, call'))]_vars

\* C16: a run that inserts pairwise distinct keys, none of them int() (as
\* the keys 1..N are), in any order and with any level draws, and then
\* deletes them in any order: every Delete returns 1, and when the last key
\* is deleted Size() is 0 and begin() == end().
C16_RoundTrip ==
    (history.trip /\ ~history.pure /\ DefaultKey \notin history.keys) =>
        /\ status = "running"
        /\ call.op = "Delete"
        /\ returned = 1
        /\ history.left = {} => (GetSize = 0 /\ begin = end)

\* C16, witness: three keys were inserted, one of them with the highest
\* level raised, and the last of them has just been deleted.
C16_Witness ==
    /\ history.trip
    /\ ~history.pure
    /\ DefaultKey \notin history.keys
    /\ Cardinality(history.keys) = 3
    /\ history.left = {}
    /\ call.op = "Delete"
    /\ m_HighestLevel > 0

\* The step is Insert's else branch for Key with the level h drawn and the
\* new node at NewNode.
InsertsNew(Key, h, NewNode) ==
    /\ call'.op = "Insert"
    /\ call'.Key = Key
    /\ status' = "running"
    /\ NewNode \in NewAddresses(Key)
    /\ ~InsertFinds(GetForwardPointer(Traverse(Key, TRUE).node, 0), Key)
    /\ InsertNew(Key, call'.Value, h, NewNode, Traverse(Key, TRUE).UpdatedPointers)

\* C17: when Insert adds a node with the drawn level h, the node has a
\* forward pointer at each of the levels 0..h and nullptr at every level
\* above h, also when h is below the highest level.
C17_NewNodeLinkedUpToDrawnLevel ==
    [][\A Key \in Keys : \A h \in GetRandomLevel(0) : \A NewNode \in Addresses :
          InsertsNew(Key, h, NewNode) =>
              \A L \in Levels :
                  (L <= h) <=> (m_ForwardPointers'[NewNode][L] # Null)]_vars

\* What the splice loop does while the terminal node lives: the new node is
\* linked at every level up to the highest level after the call, which is the
\* higher of the drawn level and the highest level before.
IntactNewNodeLinkedUpToHighestLevel ==
    [][\A Key \in Keys : \A h \in GetRandomLevel(0) : \A NewNode \in Addresses :
          (endDeleted' = 0 /\ InsertsNew(Key, h, NewNode)) =>
              /\ m_HighestLevel' = IF h > m_HighestLevel THEN h ELSE m_HighestLevel
              /\ \A L \in Levels :
                    (L <= m_HighestLevel') <=>
                        (m_ForwardPointers'[NewNode][L] # Null)]_vars

\* A real node is linked at Level: the header's chain of that level starts
\* with a live node other than the terminal node.
RealNodeAt(Level) ==
    /\ GetForwardPointer(m_Header, Level) \in allocated
    /\ GetForwardPointer(m_Header, Level) \notin {m_Header, m_End}

\* C18: in every reachable state the highest level is 0 or a real node is
\* linked at that level: Delete lowers it until one of the two holds.
C18_HighestLevelHasRealNode ==
    m_HighestLevel = 0 \/ RealNodeAt(m_HighestLevel)

\* While the terminal node lives no header pointer is nullptr, so the loop
\* that lowers the highest level never runs.
IntactDeleteKeepsHighestLevel ==
    [][(endDeleted' = 0 /\ call'.op = "Delete") =>
          m_HighestLevel' = m_HighestLevel]_vars

\* Following the pointers of Level from CurrentNode until the terminal node:
\* the nodes passed, and whether the walk got to the terminal node.
RECURSIVE ChainFrom(_, _, _, _)
ChainFrom(CurrentNode, Level, Visited, Steps) ==
    IF CurrentNode = m_End THEN [end |-> "ok", nodes |-> Visited]
    ELSE IF ~Readable(CurrentNode) \/ Steps = 0
    THEN [end |-> "fault", nodes |-> Visited]
    ELSE ChainFrom(GetForwardPointer(CurrentNode, Level), Level,
                   Append(Visited, CurrentNode), Steps - 1)

\* The chain of Level after the header.
Chain(Level) ==
    ChainFrom(GetForwardPointer(m_Header, Level), Level, << >>,
              Cardinality(Addresses))

ChainSet(Level) == {Chain(Level).nodes[i] : i \in 1..Len(Chain(Level).nodes)}

\* C19: on every level from 0 to the highest level, the pointers from the
\* header lead through real nodes in strictly ascending key order to the
\* terminal node: none of them is nullptr or leads backwards.
C19_EveryLevelAscending ==
    \A L \in 0..m_HighestLevel :
        /\ Chain(L).end = "ok"
        /\ m_End \in allocated
        /\ \A i \in 1..Len(Chain(L).nodes) :
              Chain(L).nodes[i] \in RealAddresses
        /\ \A i, j \in 1..Len(Chain(L).nodes) :
              i < j => GetKey(Chain(L).nodes[i]) < GetKey(Chain(L).nodes[j])

IntactEveryLevelAscending == Intact => C19_EveryLevelAscending

\* C20: there are no gaps: the nodes linked at a level above 0 are linked at
\* the level below as well, and every live real node is on the level-0 chain.
C20_NoGaps ==
    /\ \A L \in 1..m_HighestLevel : ChainSet(L) \subseteq ChainSet(L - 1)
    /\ (RealAddresses \cap allocated) \subseteq ChainSet(0)

IntactNoGaps == Intact => C20_NoGaps

\* ------------------------------------------------------- claims C21 to C27
\* Some live node's forward pointer holds Node after the step.
ReferencedAfter(Node) ==
    \E n \in allocated' : \E L \in Levels : m_ForwardPointers'[n][L] = Node

\* No live node's forward pointer holds the address of a deallocated node
\* after the step, so no later walk comes to a node that was deleted.
NoDanglingAfter ==
    \A n \in allocated' : \A L \in Levels :
        m_ForwardPointers'[n][L] \in Addresses =>
            m_ForwardPointers'[n][L] \in allocated'

\* C21: after Delete removes a node no forward pointer of the header or of a
\* remaining node, at any level, points at the deallocated node; Delete and
\* Clear deallocate real nodes only and leave no pointer through which a node
\* could be deallocated a second time.
C21_DeletedNodeUnreachable ==
    [][/\ call'.op = "Delete" =>
             \A gone \in allocated \ allocated' : ~ReferencedAfter(gone)
       /\ call'.op \in {"Delete", "Clear"} =>
             /\ allocated \ allocated' \subseteq RealAddresses
             /\ NoDanglingAfter]_vars

\* The same while the terminal node lives.
IntactDeletedNodeUnreachable ==
    [][endDeleted' = 0 =>
         /\ call'.op = "Delete" =>
               \A gone \in allocated \ allocated' : ~ReferencedAfter(gone)
         /\ call'.op \in {"Delete", "Clear"} =>
               /\ allocated \ allocated' \subseteq RealAddresses
               /\ NoDanglingAfter]_vars

\* Node is the rightmost node of Level whose key is less than Key: it is the
\* header or a real node on the level's chain with a lesser key, and the node
\* after it is the terminal node or holds a key that is not less.
RightmostLess(Node, Level, Key) ==
    /\ \/ Node = m_Header
       \/ Node \in ChainSet(Level) /\ GetKey(Node) < Key
    /\ \/ GetForwardPointer(Node, Level) = m_End
       \/ /\ GetForwardPointer(Node, Level) \in ChainSet(Level)
          /\ ~(GetKey(GetForwardPointer(Node, Level)) < Key)

\* C22: in every reachable state and for every target key the traversal
\* records, for each level from the highest down to 0, the rightmost node
\* whose key is less than the target, and both assertions hold there.
C22_TraversalRecordsPredecessors ==
    \A k \in Keys :
        /\ Traverse(k, TRUE).end = "ok"
        /\ Traverse(k, FALSE).end = "ok"
        /\ Traverse(k, FALSE).UpdatedPointers = Traverse(k, TRUE).UpdatedPointers
        /\ \A L \in 0..m_HighestLevel :
              /\ RightmostLess(Traverse(k, TRUE).UpdatedPointers[L], L, k)
              /\ AssertsHold(Traverse(k, TRUE).UpdatedPointers[L], L, k)

IntactTraversalRecordsPredecessors ==
    Intact => C22_TraversalRecordsPredecessors

\* C23: every level the selector returns is in 0..MaximumLevels-1, the
\* highest level is in that range in every state, and when Insert adds a
\* node with the drawn level h the highest level becomes the higher of h and
\* what it was, so every index into a forward-pointer array or predecessor
\* vector is in range.
C23_LevelBounds ==
    [][/\ GetRandomLevel(0) \subseteq 0..(MaximumLevels - 1)
       /\ m_HighestLevel' \in 0..(MaximumLevels - 1)
       /\ \A Key \in Keys : \A h \in GetRandomLevel(0) : \A NewNode \in Addresses :
             InsertsNew(Key, h, NewNode) =>
                 /\ m_HighestLevel' = IF h > m_HighestLevel THEN h
                                      ELSE m_HighestLevel
                 /\ \A L \in 0..m_HighestLevel' :
                       /\ L \in DOMAIN m_ForwardPointers'[NewNode]
                       /\ L \in DOMAIN Traverse(Key, TRUE).UpdatedPointers]_vars

\* C23, witness: Insert has added a third node while the highest level was
\* already at the cap.
C23_Witness ==
    /\ call.op = "Insert"
    /\ status = "running"
    /\ m_HighestLevel = MaximumLevels - 1
    /\ Iterate.end = "ok"
    /\ Len(Iterate.nodes) = 3
    /\ GetSize = 3
    /\ \E i \in 1..3 : GetKey(Iterate.nodes[i]) = call.Key
    /\ history.pure

\* C24: from any reachable state Clear() returns with the structure of a
\* freshly constructed container: every real node that was live has been
\* deallocated, each of them on the one walk over level 0, every header
\* pointer of the MaximumLevels levels is at the terminal node, the highest
\* level and the size are 0, and the header and the terminal node are live.
C24_ClearRestoresStructure ==
    [][call'.op = "Clear" =>
          /\ status' = "running"
          /\ allocated \ allocated' = allocated \cap RealAddresses
          /\ allocated \ allocated' = ChainSet(0)
          /\ Len(Chain(0).nodes) = Cardinality(ChainSet(0))
          /\ allocated' = {m_Header, m_End}
          /\ \A L \in Levels : m_ForwardPointers'[m_Header][L] = m_End
          /\ m_HighestLevel' = 0
          /\ m_Size' = 0]_vars

IntactClearRestoresStructure ==
    [][(endDeleted' = 0 /\ call'.op = "Clear") =>
          /\ status' = "running"
          /\ allocated \ allocated' = allocated \cap RealAddresses
          /\ allocated \ allocated' = ChainSet(0)
          /\ Len(Chain(0).nodes) = Cardinality(ChainSet(0))
          /\ allocated' = {m_Header, m_End}
          /\ \A L \in Levels : m_ForwardPointers'[m_Header][L] = m_End
          /\ m_HighestLevel' = 0
          /\ m_Size' = 0]_vars

\* The walk passes no node twice.
Acyclic(nodes) == \A i, j \in 1..Len(nodes) : i # j => nodes[i] # nodes[j]

\* C25: every operation terminates: in every reachable state and for every
\* key the traversal of Insert, Search and Delete, the walk of Clear and an
\* iteration from begin() come to their end within as many steps as there are
\* nodes; no chain has a cycle and no walk goes through nullptr or past the
\* terminal node.
C25_EveryWalkTerminates ==
    /\ \A k \in Keys : \A Asserting \in BOOLEAN :
          Traverse(k, Asserting).end # "fault"
    /\ ClearWalk(GetForwardPointer(m_Header, 0), {}, Cardinality(Addresses)).end = "ok"
    /\ Iterate.end = "ok"
    /\ \A L \in 0..m_HighestLevel :
          /\ Chain(L).end = "ok"
          /\ Acyclic(Chain(L).nodes)
          /\ \A n \in ChainSet(L) : GetForwardPointer(n, L) # Null

IntactEveryWalkTerminates == Intact => C25_EveryWalkTerminates

\* C27: in every reachable state the header's forward pointer at every level
\* above the highest level is at the terminal node, and none of the header's
\* MaximumLevels forward pointers is nullptr.
C27_HeaderPointersNeverNull ==
    /\ \A L \in Levels : L > m_HighestLevel =>
          GetForwardPointer(m_Header, L) = m_End
    /\ \A L \in Levels : GetForwardPointer(m_Header, L) # Null
    /\ m_End \in allocated

IntactHeaderPointersNeverNull == Intact => C27_HeaderPointersNeverNull

\* Both calls have returned.
Quiescent == \A t \in Threads : threads[t].pc = "done"

\* A per-level chain is corrupted: a stored key is not reachable on level 0,
\* Size() differs from the number of reachable nodes, or a live node's
\* forward pointer holds the address of a deallocated node.
Corrupted ==
    \/ Chain(0).end # "ok"
    \/ \E n \in RealAddresses \cap allocated : n \notin ChainSet(0)
    \/ GetSize # Len(Chain(0).nodes)
    \/ \E n \in allocated : \E L \in Levels :
          /\ GetForwardPointer(n, L) \in Addresses
          /\ GetForwardPointer(n, L) \notin allocated

\* C26: the operations are not atomic: when the steps of two mutating calls
\* interleave so that one of them stores over a level-0 pointer the other
\* has changed since the first loaded it, the container is corrupted once
\* the calls have returned.
C26_InterleavingCorrupts ==
    (status = "running" /\ Quiescent /\ \E t \in Threads : threads[t].raced) =>
        Corrupted

\* C26, witness: two Insert calls with different keys have interleaved and
\* returned; one of the two nodes is live and not on the level-0 chain, and
\* Size() counts it.
C26_Witness ==
    /\ status = "running"
    /\ Quiescent
    /\ \E t \in Threads : threads[t].raced
    /\ \A t \in Threads : threads[t].op = "Insert"
    /\ threads["first"].Key # threads["second"].Key
    /\ m_End \in allocated
    /\ Chain(0).end = "ok"
    /\ GetSize = 2
    /\ Len(Chain(0).nodes) = 1
    /\ \E n \in RealAddresses \cap allocated : n \notin ChainSet(0)

\* Reachable as well (each is the negation of an invariant that fails): an
\* Insert and a Delete, and two Deletes, have interleaved and returned, and
\* a live node's forward pointer holds the address of a deallocated node.
Dangling ==
    \E n \in allocated : \E L \in Levels :
        /\ GetForwardPointer(n, L) \in RealAddresses
        /\ GetForwardPointer(n, L) \notin allocated

InsertDeleteCorrupted ==
    /\ status = "running"
    /\ Quiescent
    /\ {threads[t].op : t \in Threads} = {"Insert", "Delete"}
    /\ \E t \in Threads : threads[t].raced
    /\ Dangling

DeleteDeleteCorrupted ==
    /\ status = "running"
    /\ Quiescent
    /\ \A t \in Threads : threads[t].op = "Delete"
    /\ threads["first"].Key # threads["second"].Key
    /\ \E t \in Threads : threads[t].raced
    /\ Dangling

=============================================================================
